---- MODULE Spec2Model ----
(***************************************************************************)
(* A model of pymodbus3/datastore/context.py: ModbusSlaveContext (four     *)
(* data banks addressed through a function code and a 0-based request      *)
(* address) and ModbusServerContext (unit id -> slave context, in single   *)
(* or multi mode).                                                         *)
(***************************************************************************)
EXTENDS Integers, Sequences, FiniteSets

VARIABLES single, slaves, op, store, blocks, sop, reqs

vars == <<single, slaves, op, store, blocks, sop, reqs>>
serverVars == <<single, slaves, op>>
slaveVars == <<store, blocks, sop, reqs>>

(***************************************************************************)
(* Bounds of the model.                                                    *)
(***************************************************************************)
\* how many distinct slave context objects the callers hold
NumContexts == 2
\* how many values a data block holds
BlockSize == 3

(***************************************************************************)
(* Python values held by a ModbusServerContext: a slave context object     *)
(* (identified by id), a dict of unit id -> context, or None.              *)
(***************************************************************************)
Contexts == 1..NumContexts
Ctx(i) == [kind |-> "ctx", id |-> i, items |-> {}]
Dict(S) == [kind |-> "dict", id |-> 0, items |-> S]
None == [kind |-> "none", id |-> 0, items |-> {}]

\* the unit ids the callers use: below the range, its two ends, inside, above
UnitIds == {-1, 0, 5, 247, 248}
\* the keys of the dicts handed to the constructor (one of them out of range)
InitKeys == {5, 248}
InitDicts ==
    {Dict(S) : S \in {T \in SUBSET (InitKeys \X Contexts) :
                        \A p \in T, q \in T : p[1] = q[1] => p = q}}

\* Defaults.UnitId
UnitId == 0

\* ParameterException('slave index out of range')
OutOfRange == "ParameterException: slave index out of range"
\* ParameterException('slave does not exist, or is out of range')
DoesNotExist == "ParameterException: slave does not exist, or is out of range"
\* del of an absent dict key
KeyError == "KeyError"
\* iter() of an object whose __iter__ returns something without __next__
TypeError == "TypeError: iter() returned non-iterator"
NoError == "none"

Put(m, k, v) == [x \in (DOMAIN m) \cup {k} |-> IF x = k THEN v ELSE m[x]]
Remove(m, k) == [x \in (DOMAIN m) \ {k} |-> m[x]]
Items(m) == {<<k, m[k]>> : k \in DOMAIN m}

\* the record of the last call on the server context
Call(name, slave, context, raised, value, member, items) ==
    [name |-> name, slave |-> slave, context |-> context, raised |-> raised,
     value |-> value, member |-> member, items |-> items]

(***************************************************************************)
(* ModbusServerContext.__init__(slaves=None, single=True)                  *)
(***************************************************************************)
\* `slaves or {}`: None and the empty dict are falsy
OrEmptyDict(arg) ==
    IF arg.kind = "ctx" \/ (arg.kind = "dict" /\ arg.items # {})
    THEN arg ELSE Dict({})

\* the dict object as the mapping self.__slaves
AsMapping(d) ==
    [k \in {p[1] : p \in d.items} |->
        Ctx((CHOOSE p \in d.items : p[1] = k)[2])]

\* a constructor that does not wrap the supplied value in single mode
ServerConstructUnwrapped(arg, sgl) ==
    /\ single = sgl
    /\ slaves = AsMapping(OrEmptyDict(arg))
    /\ op = Call("init", 0, arg, NoError, None, FALSE, {})

ServerConstruct(arg, sgl) ==
    /\ single = sgl
    /\ slaves = IF sgl THEN [k \in {UnitId} |-> OrEmptyDict(arg)]
                       ELSE AsMapping(OrEmptyDict(arg))
    /\ op = Call("init", 0, arg, NoError, None, FALSE, {})


(***************************************************************************)
(* ModbusServerContext.__setitem__(slave, context)                         *)
(***************************************************************************)
\* a __setitem__ that keeps the caller's unit id in single mode
SetItemKeyUnforced(slave) == slave

\* if self.single: slave = Defaults.UnitId
SetItemKey(slave) == IF single THEN UnitId ELSE slave

\* a range check that is off by one at the upper end
SetItemInRangeOffByOne(slave) == 248 >= slave /\ slave >= 0

\* 0xf7 >= slave >= 0x00
SetItemInRange(slave) == 247 >= slave /\ slave >= 0

SetItem(slave, context) ==
    LET key == SetItemKey(slave) IN
    /\ IF SetItemInRange(key)
       THEN /\ slaves' = Put(slaves, key, context)
            /\ op' = Call("setitem", slave, context, NoError, None, FALSE, {})
       ELSE /\ slaves' = slaves
            /\ op' = Call("setitem", slave, context, OutOfRange, None, FALSE, {})
    /\ UNCHANGED <<single, slaveVars>>

(***************************************************************************)
(* ModbusServerContext.__delitem__(slave)                                  *)
(***************************************************************************)
\* a __delitem__ that does not refuse in single mode
DelItemAllowedInSingle(slave) == 247 >= slave /\ slave >= 0

\* not self.single and (0xf7 >= slave >= 0x00)
DelItemAllowed(slave) == ~single /\ (247 >= slave /\ slave >= 0)

\* del self.__slaves[slave]: the dict raises KeyError for an absent key
DelItem(slave) ==
    /\ IF DelItemAllowed(slave)
       THEN IF slave \in DOMAIN slaves
            THEN /\ slaves' = Remove(slaves, slave)
                 /\ op' = Call("delitem", slave, None, NoError, None, FALSE, {})
            ELSE /\ slaves' = slaves
                 /\ op' = Call("delitem", slave, None, KeyError, None, FALSE, {})
       ELSE /\ slaves' = slaves
            /\ op' = Call("delitem", slave, None, OutOfRange, None, FALSE, {})
    /\ UNCHANGED <<single, slaveVars>>

(***************************************************************************)
(* ModbusServerContext.__getitem__(slave)                                  *)
(***************************************************************************)
\* a __getitem__ that keeps the caller's unit id in single mode
GetItemKeyUnforced(slave) == slave

\* if self.single: slave = Defaults.UnitId
GetItemKey(slave) == IF single THEN UnitId ELSE slave

\* what __getitem__(slave) gives in the current state: the error it raises
\* and the value it returns
GetItemResult(slave) ==
    LET key == GetItemKey(slave) IN
    IF key \in DOMAIN slaves
    THEN [raised |-> NoError, value |-> slaves[key]]
    ELSE [raised |-> DoesNotExist, value |-> None]

\* a __getitem__ that registers an entry for the key it misses
GetItemCreating(slave) ==
    LET r == GetItemResult(slave) IN
    /\ slaves' = IF r.raised = NoError THEN slaves
                 ELSE Put(slaves, GetItemKey(slave), None)
    /\ op' = Call("getitem", slave, None, r.raised, r.value, FALSE, {})
    /\ UNCHANGED <<single, slaveVars>>

GetItem(slave) ==
    LET r == GetItemResult(slave) IN
    /\ op' = Call("getitem", slave, None, r.raised, r.value, FALSE, {})
    /\ UNCHANGED <<single, slaves, slaveVars>>

(***************************************************************************)
(* ModbusServerContext.__contains__(slave)                                 *)
(***************************************************************************)
\* a membership test that forces the default unit id in single mode
ContainsResultForced(slave) == GetItemKey(slave) \in DOMAIN slaves

\* slave in self.__slaves
ContainsResult(slave) == slave \in DOMAIN slaves

Contains(slave) ==
    /\ op' = Call("contains", slave, None, NoError, None,
                  ContainsResult(slave), {})
    /\ UNCHANGED <<single, slaves, slaveVars>>

(***************************************************************************)
(* Iterating a ModbusServerContext: iter(context) calls __iter__(), which  *)
(* returns self.__slaves.items().  That is a view of the dict's pairs: it  *)
(* can be iterated, but it has no __next__ and is not an iterator, and     *)
(* iter() raises TypeError for an __iter__ that returns a non-iterator.    *)
(***************************************************************************)
\* what __iter__() returns: the pairs of the view
IterResult == Items(slaves)

\* whether what __iter__() returns is an iterator (has __next__)
IterResultIsIterator == FALSE

Iter ==
    /\ IF IterResultIsIterator
       THEN op' = Call("iter", 0, None, NoError, None, FALSE, IterResult)
       ELSE op' = Call("iter", 0, None, TypeError, None, FALSE, {})
    /\ UNCHANGED <<single, slaves, slaveVars>>

ServerNext ==
    \/ \E slave \in UnitIds, i \in Contexts : SetItem(slave, Ctx(i))
    \/ \E slave \in UnitIds : DelItem(slave)
    \/ \E slave \in UnitIds : GetItem(slave)
    \/ \E slave \in UnitIds : Contains(slave)
    \/ Iter

(***************************************************************************)
(* The data block interface ModbusSlaveContext consumes                    *)
(* (pymodbus3.datastore.store) and the function code decoder               *)
(* (pymodbus3.interfaces.IModbusSlaveContext.decode).                      *)
(***************************************************************************)
\* the keys of self.store
Letters == {"d", "c", "i", "h"}

\* the function codes of the requests: read coils, read discrete inputs,
\* read holding registers, read input registers, write coil
FxCodes == {1, 2, 3, 4, 5}

\* decode(fx): total over FxCodes, onto the four object spaces
Decode(fx) ==
    CASE fx \in {1, 5} -> "c"
      [] fx = 2 -> "d"
      [] fx = 4 -> "i"
      [] fx = 3 -> "h"

\* the values a cell holds
Values == {0, 1}
\* the default fill value of a block
DefaultValue == 0

\* ModbusSequentialDataBlock.create(): starts at address 0, fully populated
\* with the default fill value
BlockCreate ==
    [address |-> 0, values |-> [i \in 1..BlockSize |-> DefaultValue],
     default_value |-> DefaultValue]

\* block.validate(address, count): [address, address+count) lies within
\* the populated range
BlockValidate(b, address, count) ==
    b.address <= address /\ address + count <= b.address + Len(b.values)

\* block.get_values(address, count)
BlockGetValues(b, address, count) ==
    [i \in 1..count |-> b.values[address - b.address + i]]

\* block.set_values(address, values)
BlockSetValues(b, address, values) ==
    [b EXCEPT !.values =
        [i \in 1..Len(b.values) |->
            IF i - 1 >= address - b.address
               /\ i - 1 < address - b.address + Len(values)
            THEN values[i - (address - b.address)]
            ELSE b.values[i]]]

\* a block reset that empties the block instead of refilling it
BlockResetClearing(b) == [b EXCEPT !.values = <<>>]

\* block.reset()
BlockReset(b) ==
    [b EXCEPT !.values = [i \in 1..Len(b.values) |-> b.default_value]]

\* the record of the last call on the slave context
SlaveCall(name, fx, address, count, values, result, returned) ==
    [name |-> name, fx |-> fx, address |-> address, count |-> count,
     values |-> values, result |-> result, returned |-> returned]

\* no call is in progress: the caller has taken the last result
Idle == SlaveCall("idle", 0, 0, 0, <<>>, FALSE, <<>>)

(***************************************************************************)
(* ModbusSlaveContext.__init__: each bank (a keyword argument) is the   *)
(* block the caller passes, or a new default block.  The caller may     *)
(* pass one block object (block 0 here) for several banks.               *)
(***************************************************************************)
BlockIds == 0..4

BankId(letter) ==
    CASE letter = "d" -> 1 [] letter = "c" -> 2
      [] letter = "i" -> 3 [] letter = "h" -> 4

SlaveConstruct(shared) ==
    /\ store = [l \in Letters |-> IF l \in shared THEN 0 ELSE BankId(l)]
    /\ blocks = [b \in BlockIds |-> BlockCreate]
    /\ sop = Idle

\* the banks the caller builds from one block object: none (four blocks),
\* the two bit spaces, the two register spaces, or all four
SharedBanks == {{}, {"d", "c"}, {"i", "h"}, Letters}

\* self.store[self.decode(fx)]
Bank(fx) == store[Decode(fx)]

(***************************************************************************)
(* ModbusSlaveContext.reset()                                              *)
(***************************************************************************)
\* a reset that reaches the holding registers only
ResetBanksHoldingOnly == {store["h"]}

\* self.store.values()
ResetBanks == {store[l] : l \in Letters}

\* the banks whose contents differ from the default fill (the record of a
\* reset notes how many there were when it was called)
Dirty == {l \in Letters : blocks[store[l]] # BlockReset(blocks[store[l]])}

Reset ==
    /\ sop = Idle
    /\ blocks' = [b \in BlockIds |->
                    IF b \in ResetBanks THEN BlockReset(blocks[b]) ELSE blocks[b]]
    /\ sop' = SlaveCall("reset", 0, 0, Cardinality(Dirty), <<>>, FALSE, <<>>)
    /\ UNCHANGED <<store, serverVars, reqs>>

(***************************************************************************)
(* ModbusSlaveContext.validate(fx, address, count)                         *)
(***************************************************************************)
\* a validate without the shift to the 1-based address
ValidateAddressNoShift(address) == address

\* address += 1
ValidateAddress(address) == address + 1

ValidateResult(fx, address, count) ==
    BlockValidate(blocks[Bank(fx)], ValidateAddress(address), count)

Validate(fx, address, count) ==
    /\ sop = Idle
    /\ sop' = SlaveCall("validate", fx, address, count, <<>>,
                        ValidateResult(fx, address, count), <<>>)
    /\ UNCHANGED <<store, blocks, serverVars, reqs>>

(***************************************************************************)
(* ModbusSlaveContext.get_values(fx, address, count)                       *)
(* The caller validates first: without a successful validate the outcome   *)
(* is left to the block.                                                   *)
(***************************************************************************)
\* address += 1
GetAddress(address) == address + 1

GetValuesResult(fx, address, count) ==
    BlockGetValues(blocks[Bank(fx)], GetAddress(address), count)

GetValues(fx, address, count) ==
    /\ sop = Idle
    /\ ValidateResult(fx, address, count)
    /\ sop' = SlaveCall("get_values", fx, address, count, <<>>, FALSE,
                        GetValuesResult(fx, address, count))
    /\ UNCHANGED <<store, blocks, serverVars, reqs>>

(***************************************************************************)
(* ModbusSlaveContext.set_values(fx, address, values)                      *)
(***************************************************************************)
\* a set_values without the shift to the 1-based address
SetAddressNoShift(address) == address

\* address += 1
SetAddress(address) == address + 1

\* a set_values that writes the holding registers whatever fx is
SetBankHolding(fx) == store["h"]

\* self.store[self.decode(fx)] of set_values
SetBank(fx) == store[Decode(fx)]

SetValues(fx, address, values) ==
    /\ sop = Idle
    /\ ValidateResult(fx, address, Len(values))
    /\ blocks' = [blocks EXCEPT ![SetBank(fx)] =
                    BlockSetValues(@, SetAddress(address), values)]
    /\ sop' = SlaveCall("set_values", fx, address, Len(values), values,
                        FALSE, <<>>)
    /\ UNCHANGED <<store, serverVars, reqs>>

\* the call returns to the caller (the request dispatcher), which makes its
\* calls one at a time
Return ==
    /\ sop # Idle
    /\ sop' = Idle
    /\ UNCHANGED <<store, blocks, serverVars, reqs>>

\* the request addresses and counts the callers use
Addresses == 0..(BlockSize - 1)
Counts == 1..(BlockSize - 1)
ValueSeqs == UNION {[1..n -> Values] : n \in Counts}

SlaveNext ==
    \/ Reset
    \/ \E fx \in FxCodes, a \in Addresses, n \in Counts : Validate(fx, a, n)
    \/ \E fx \in FxCodes, a \in Addresses, n \in Counts : GetValues(fx, a, n)
    \/ \E fx \in FxCodes, a \in Addresses, v \in ValueSeqs : SetValues(fx, a, v)
    \/ Return

(***************************************************************************)
(* Two requests on one slave context.  The dispatcher handles a request in *)
(* two calls, validate and then get_values or set_values; the calls of    *)
(* the two requests, and one call of reset, interleave in any order.      *)
(* Each call is one step: the methods have no suspension point.  A read   *)
(* request carries a read function code, a write request a write code.    *)
(***************************************************************************)
Requests == {1, 2}

\* the function codes of FxCodes that read, and those that write
ReadCodes == {1, 2, 3, 4}
WriteCodes == {5}

\* a request: where it stands, what it asks for, whether a write of the
\* other request or a reset ran between its two calls, and what its
\* get_values returned
Request(pc, kind, fx, address, count) ==
    [pc |-> pc, kind |-> kind, fx |-> fx, address |-> address,
     count |-> count, overtaken |-> FALSE, returned |-> <<>>]

NoRequests == [r \in Requests |-> Request("none", "get", 0, 0, 0)]

NewRequests ==
    {Request("new", "get", fx, a, n) :
        fx \in ReadCodes, a \in Addresses, n \in Counts}
    \cup {Request("new", "set", fx, a, n) :
        fx \in WriteCodes, a \in Addresses, n \in Counts}

\* the requests after a call that changes the blocks, made for request r (0
\* for a reset): it overtakes the requests that wait between their two calls
Overtake(rs, r) ==
    [x \in Requests |->
        IF x # r /\ rs[x].pc = "validated"
        THEN [rs[x] EXCEPT !.overtaken = TRUE] ELSE rs[x]]

\* the dispatcher calls validate(fx, address, count) and goes on only if it
\* returns true
ReqValidate(r) ==
    LET q == reqs[r] IN
    /\ q.pc = "new"
    /\ reqs' = [reqs EXCEPT
                  ![r].pc = IF ValidateResult(q.fx, q.address, q.count)
                            THEN "validated" ELSE "rejected"]
    /\ UNCHANGED <<store, blocks, sop, serverVars>>

\* the dispatcher calls get_values or set_values without another check.  If
\* the range were no longer populated the outcome would be the block's.
ReqAct(r) ==
    LET q == reqs[r]
        ok == ValidateResult(q.fx, q.address, q.count) IN
    /\ q.pc = "validated"
    /\ IF q.kind = "get"
       THEN /\ reqs' = [reqs EXCEPT
                          ![r].pc = IF ok THEN "acted" ELSE "undefined",
                          ![r].returned =
                              IF ok
                              THEN GetValuesResult(q.fx, q.address, q.count)
                              ELSE <<>>]
            /\ blocks' = blocks
       ELSE /\ reqs' = Overtake([reqs EXCEPT
                          ![r].pc = IF ok THEN "acted" ELSE "undefined"], r)
            /\ \E v \in ValueSeqs :
                  /\ Len(v) = q.count
                  /\ blocks' =
                        IF ok
                        THEN [blocks EXCEPT ![SetBank(q.fx)] =
                                BlockSetValues(@, SetAddress(q.address), v)]
                        ELSE blocks
    /\ UNCHANGED <<store, sop, serverVars>>

\* reset() called between the calls of the requests
ReqReset ==
    /\ sop = Idle
    /\ blocks' = [b \in BlockIds |->
                    IF b \in ResetBanks THEN BlockReset(blocks[b]) ELSE blocks[b]]
    /\ sop' = SlaveCall("reset", 0, 0, 0, <<>>, FALSE, <<>>)
    /\ reqs' = Overtake(reqs, 0)
    /\ UNCHANGED <<store, serverVars>>

ConcNext ==
    \/ \E r \in Requests : ReqValidate(r)
    \/ \E r \in Requests : ReqAct(r)
    \/ ReqReset

\* a slave context in every construction and two new requests
InitConc ==
    /\ \E shared \in SharedBanks : SlaveConstruct(shared)
    /\ ServerConstruct(None, TRUE)
    /\ reqs \in [Requests -> NewRequests]
ConcSpec == InitConc /\ [][ConcNext]_vars

\* a server context in every construction, beside a default slave context
InitServer ==
    /\ \/ \E arg \in {None} \cup InitDicts \cup {Ctx(i) : i \in Contexts} :
             ServerConstruct(arg, TRUE)
       \/ \E arg \in {None} \cup InitDicts : ServerConstruct(arg, FALSE)
    /\ SlaveConstruct({})
    /\ reqs = NoRequests
ServerSpec == InitServer /\ [][ServerNext]_vars

\* a slave context in every construction, beside a default server context
InitSlave ==
    /\ \E shared \in SharedBanks : SlaveConstruct(shared)
    /\ ServerConstruct(None, TRUE)
    /\ reqs = NoRequests
SlaveSpec == InitSlave /\ [][SlaveNext]_vars

(***************************************************************************)
(* Properties of ModbusServerContext, checked under ServerSpec.            *)
(***************************************************************************)

\* C1: in single mode __getitem__(u) succeeds and returns the one stored
\* entry for every unit id u, and after __setitem__(u, c) for any u every
\* __getitem__(u') returns c.
C1_SingleResolvesSame ==
    single =>
        /\ \A u \in UnitIds :
              /\ GetItemResult(u).raised = NoError
              /\ GetItemResult(u).value = slaves[UnitId]
        /\ \A u \in UnitIds, w \in UnitIds : GetItemResult(u) = GetItemResult(w)
        /\ op.name = "setitem" =>
              /\ op.raised = NoError
              /\ \A w \in UnitIds : GetItemResult(w).value = op.context
        /\ op.name = "getitem" =>
              op.raised = NoError /\ op.value = slaves[UnitId]

\* single mode: a set under unit id 247 has replaced the entry that unit id 5
\* (and 0) reads, after an earlier set of another context
C1_Witness ==
    /\ single
    /\ op.name = "setitem" /\ op.slave = 247 /\ op.context = Ctx(2)
    /\ GetItemResult(5).value = Ctx(2)
    /\ GetItemResult(0).value = Ctx(2)

\* C2: in single mode the mapping never has more than one entry, and that
\* entry is keyed by the default unit id.
C2_SingleSizeOne ==
    single => Cardinality(DOMAIN slaves) <= 1 /\ DOMAIN slaves = {UnitId}

\* single mode: a set under the out-of-range unit id 248 went through
C2_Witness ==
    /\ single
    /\ op.name = "setitem" /\ op.slave = 248 /\ op.raised = NoError
    /\ slaves[UnitId] = op.context

\* C3: in multi mode __setitem__(slave, context) with slave outside
\* [0x00, 0xF7] raises the out-of-range error and leaves the mapping as it
\* was; with slave inside it succeeds and the mapping is the previous one
\* with slave mapped to context.
C3_MultiSetItem ==
    [][(op'.name = "setitem" /\ ~single) =>
          IF 0 <= op'.slave /\ op'.slave <= 247
          THEN /\ op'.raised = NoError
               /\ DOMAIN slaves' = (DOMAIN slaves) \cup {op'.slave}
               /\ slaves'[op'.slave] = op'.context
               /\ \A k \in (DOMAIN slaves) \ {op'.slave} :
                     slaves'[k] = slaves[k]
          ELSE /\ op'.raised = OutOfRange
               /\ slaves' = slaves]_vars

\* multi mode: unit id 247 is set and a set of unit id 248 was refused
C3_Witness ==
    /\ ~single
    /\ 247 \in DOMAIN slaves
    /\ op.name = "setitem" /\ op.slave = 248 /\ op.raised = OutOfRange

\* C4: __delitem__(slave) raises the out-of-range error and leaves the
\* mapping as it was in single mode and for a slave outside [0x00, 0xF7];
\* in multi mode with an in-range slave that is present it removes exactly
\* that entry.
C4_DelItem ==
    [][op'.name = "delitem" =>
          IF single \/ ~(0 <= op'.slave /\ op'.slave <= 247)
          THEN /\ op'.raised = OutOfRange
               /\ slaves' = slaves
          ELSE op'.slave \in DOMAIN slaves =>
                  /\ op'.raised = NoError
                  /\ DOMAIN slaves' = (DOMAIN slaves) \ {op'.slave}
                  /\ \A k \in DOMAIN slaves' : slaves'[k] = slaves[k]]_vars

\* multi mode: unit id 5 was deleted and another entry is still there
C4_Witness ==
    /\ ~single
    /\ op.name = "delitem" /\ op.slave = 5 /\ op.raised = NoError
    /\ 5 \notin DOMAIN slaves
    /\ 247 \in DOMAIN slaves

\* C5: in multi mode a delete raises the range-violation error only for an
\* out-of-bounds unit id, a delete of an in-bounds absent unit id has no
\* error outcome of its own, and the errors of the server context are the
\* range violation and the missing entry on lookup only.
C5_DeleteAbsentNotDistinguished ==
    /\ op.name \in {"setitem", "delitem", "getitem", "contains"} =>
          op.raised \in {NoError, OutOfRange, DoesNotExist}
    /\ (op.name = "delitem" /\ ~single) =>
          /\ op.raised \in {NoError, OutOfRange}
          /\ op.raised = OutOfRange <=> ~(0 <= op.slave /\ op.slave <= 247)

\* C6: __getitem__(slave) raises the 'does not exist' error iff the key
\* (the default unit id in single mode) is absent and returns the stored
\* context otherwise; __getitem__ and the membership test leave the mapping
\* as it was.
C6_ReadsDoNotWrite ==
    [][op'.name \in {"getitem", "contains"} =>
          /\ slaves' = slaves
          /\ single' = single
          /\ op'.name = "getitem" =>
                LET key == IF single THEN UnitId ELSE op'.slave IN
                IF key \in DOMAIN slaves
                THEN op'.raised = NoError /\ op'.value = slaves[key]
                ELSE op'.raised = DoesNotExist]_vars

\* multi mode: a lookup of an absent unit id failed and created nothing
C6_Witness ==
    /\ ~single
    /\ op.name = "getitem" /\ op.slave = 5 /\ op.raised = DoesNotExist
    /\ 5 \notin DOMAIN slaves
    /\ 0 \in DOMAIN slaves

(***************************************************************************)
(* Properties of ModbusSlaveContext, checked under SlaveSpec.              *)
(***************************************************************************)
\* an offset of the populated range of a block
InPopulated(b, o) == b.address <= o /\ o < b.address + Len(b.values)

\* C7: validate(fx, a, n) returns true iff every offset in [a+1, a+1+n)
\* lies within the populated range of the bank fx decodes to; it returns
\* (false for an out-of-range input) and changes no bank.
C7_Validate ==
    [][sop'.name = "validate" =>
          /\ blocks' = blocks
          /\ store' = store
          /\ sop'.result =
                (\A o \in (sop'.address + 1)..(sop'.address + sop'.count) :
                    InPopulated(blocks[store[Decode(sop'.fx)]], o))]_vars

\* the last request address of a default block is refused (its 1-based
\* address is one past the block), and request address 0 is not
C7_Witness ==
    /\ sop.name = "validate"
    /\ sop.address = BlockSize - 1 /\ sop.count = 1
    /\ ~sop.result
    /\ ValidateResult(sop.fx, 0, 1)
    /\ \E l \in Letters : blocks[store[l]].values # BlockCreate.values

\* C8: right after set_values(fx1, a, v) inside the populated range,
\* get_values(fx2, a, len(v)) returns v for every fx2 that decodes to the
\* object space of fx1, and the values of that bank outside the written
\* range are as they were.
C8_SetThenGet ==
    [][sop'.name = "set_values" =>
          LET b == store[Decode(sop'.fx)] IN
          /\ \A fx2 \in FxCodes, a \in Addresses, n \in Counts :
                (/\ Decode(fx2) = Decode(sop'.fx)
                 /\ a = sop'.address /\ n = sop'.count) =>
                    /\ ValidateResult(fx2, a, n)'
                    /\ GetValuesResult(fx2, a, n)' = sop'.values
          /\ Len(blocks'[b].values) = Len(blocks[b].values)
          /\ blocks'[b].address = blocks[b].address
          /\ \A i \in 1..Len(blocks[b].values) :
                (blocks[b].address + i - 1) \notin
                        (sop'.address + 1)..(sop'.address + sop'.count)
                    => blocks'[b].values[i] = blocks[b].values[i]]_vars

\* a coil was written through function code 5 next to a coil that holds a
\* 1, and function code 1 reads both back
C8_Witness ==
    /\ sop.name = "set_values" /\ sop.fx = 5
    /\ sop.address = 0 /\ sop.values = <<0>>
    /\ GetValuesResult(1, 0, 2) = <<0, 1>>

C10_ResetRestoresDefaults ==
    sop.name = "reset" =>
        /\ \A l \in Letters :
              /\ blocks[store[l]].address = 0
              /\ blocks[store[l]].values = [i \in 1..BlockSize |-> DefaultValue]
        /\ \A fx \in FxCodes :
              GetValuesResult(fx, 0, BlockSize - 1)
                  = [i \in 1..(BlockSize - 1) |-> DefaultValue]

\* a reset was called when all four banks held written values
C10_Witness ==
    /\ sop.name = "reset" /\ sop.count = 4
    /\ \A l \in Letters : blocks[store[l]].values = [i \in 1..BlockSize |-> DefaultValue]

(***************************************************************************)
(* Further properties of ModbusServerContext, checked under ServerSpec.    *)
(***************************************************************************)
KeysInRange == \A k \in DOMAIN slaves : 0 <= k /\ k <= 247

\* C11: right after construction with single true the mapping has exactly
\* one key, the default unit id, whose value is what was supplied (an empty
\* dict when nothing was supplied), whatever keys the supplied value had,
\* and __getitem__(u) returns that value for every u.
C11_SingleConstruction ==
    (op.name = "init" /\ single) =>
        LET supplied == IF op.context = None THEN Dict({}) ELSE op.context IN
        /\ DOMAIN slaves = {UnitId}
        /\ slaves[UnitId] = supplied
        /\ \A u \in UnitIds :
              GetItemResult(u) = [raised |-> NoError, value |-> supplied]

\* single mode, just constructed from a dict with the keys 5 and 248
C11_Witness ==
    /\ op.name = "init" /\ single
    /\ op.context = Dict({<<5, 1>>, <<248, 2>>})
    /\ GetItemResult(247).value = Dict({<<5, 1>>, <<248, 2>>})

\* C12: iterating a server context yields exactly the (unit id, context)
\* pairs currently held: one pair per unit id set and not deleted, with the
\* context set last, and no other pair.
C12_IterationYieldsPairs ==
    op.name = "iter" =>
        /\ op.raised = NoError
        /\ op.items = {<<k, slaves[k]>> : k \in DOMAIN slaves}

\* C13: the membership test uses the unit id as given: in single mode only
\* the default unit id is a member although __getitem__ succeeds for every
\* unit id; in multi mode slave is a member iff __getitem__(slave) succeeds.
C13_MembershipUnforced ==
    /\ \A u \in UnitIds :
          IF single
          THEN /\ ContainsResult(u) = (u = UnitId)
               /\ GetItemResult(u).raised = NoError
          ELSE ContainsResult(u) = (GetItemResult(u).raised = NoError)
    /\ op.name = "contains" => op.member = (op.slave \in DOMAIN slaves)

\* single mode: unit id 5 tested as no member, and its lookup succeeds
C13_Witness ==
    /\ single
    /\ op.name = "contains" /\ op.slave = 5 /\ ~op.member
    /\ GetItemResult(5) = [raised |-> NoError, value |-> Ctx(1)]

\* C14: in single mode the default-id entry is always there: __delitem__
\* always refuses, __setitem__ never raises, and __getitem__ never raises
\* the 'does not exist' error for any unit id.
C14_SingleLookupNeverFails ==
    single =>
        /\ UnitId \in DOMAIN slaves
        /\ \A u \in UnitIds : GetItemResult(u).raised # DoesNotExist
        /\ op.name = "getitem" => op.raised = NoError
        /\ op.name = "setitem" => op.raised = NoError
        /\ op.name = "delitem" => op.raised = OutOfRange

\* single mode: the delete of the default unit id was refused after a set
C14_Witness ==
    /\ single
    /\ op.name = "delitem" /\ op.slave = UnitId /\ op.raised = OutOfRange
    /\ GetItemResult(248) = [raised |-> NoError, value |-> Ctx(2)]

\* C15: in multi mode, once every key lies in [0x00, 0xF7] (as for an
\* initial mapping with in-range keys or none) every key lies in it after
\* any call, and __getitem__ of an out-of-range unit id raises the 'does
\* not exist' error.
C15_MultiKeysStayInRange ==
    [][(~single /\ KeysInRange) =>
          /\ KeysInRange'
          /\ \A u \in UnitIds :
                ~(0 <= u /\ u <= 247) =>
                    GetItemResult(u)'.raised = DoesNotExist
          /\ (op'.name = "getitem" /\ ~(0 <= op'.slave /\ op'.slave <= 247))
                => op'.raised = DoesNotExist]_vars

\* multi mode: both ends of the range are set, and a lookup of unit id 248
\* failed
C15_Witness ==
    /\ ~single /\ KeysInRange
    /\ 0 \in DOMAIN slaves /\ 247 \in DOMAIN slaves
    /\ op.name = "getitem" /\ op.slave = 248 /\ op.raised = DoesNotExist

(***************************************************************************)
(* Properties of interleaved requests, checked under ConcSpec.             *)
(***************************************************************************)

\* C16: no call changes which block a store key refers to or which
\* addresses a block populates, so a validate(fx, a, n) that returned true
\* stays true until the matching get_values or set_values has run, whatever
\* calls of the other request and of reset come in between.
C16_ValidatedStaysValid ==
    [][/\ store' = store
       /\ \A b \in BlockIds :
             /\ blocks'[b].address = blocks[b].address
             /\ Len(blocks'[b].values) = Len(blocks[b].values)
       /\ \A r \in Requests, fx \in FxCodes, a \in Addresses, n \in Counts :
             (fx = reqs[r].fx /\ a = reqs[r].address /\ n = reqs[r].count) =>
                 /\ reqs'[r].pc = "validated" => ValidateResult(fx, a, n)'
                 /\ (reqs[r].pc = "validated" /\ reqs'[r].pc # "validated") =>
                       /\ ValidateResult(fx, a, n)
                       /\ reqs'[r].pc = "acted"]_vars

\* request 1 validated a read of coil 0, request 2 wrote that coil before
\* request 1 read it, and request 1 read the written value
C16_Witness ==
    /\ reqs[1].kind = "get" /\ reqs[1].fx = 1
    /\ reqs[1].address = 0 /\ reqs[1].count = 1
    /\ reqs[2].kind = "set" /\ reqs[2].fx = 5
    /\ reqs[2].address = 0 /\ reqs[2].count = 1
    /\ reqs[2].pc = "acted"
    /\ reqs[1].pc = "acted" /\ reqs[1].overtaken
    /\ reqs[1].returned = <<1>>

====
